---- MODULE Spec2Model ----
(***************************************************************************)
(* Model of the train-ticket plugin of src/main.py (TrainTicketPlugin).    *)
(*                                                                         *)
(* Two handlers are registered with the host framework:                    *)
(*   ticket_query   (command "火车票")      lines 65-114                   *)
(*   handle_choice  (regex ^[1-8]$)         lines 116-131                  *)
(* ticket_query suspends once, at the await of fetch_tickets (line 95);    *)
(* everything else runs to completion.  A text is a sequence of glyphs,    *)
(* a token a non-empty sequence of glyphs, a message body a sequence of    *)
(* lines, a line a sequence of glyphs.  The Chinese texts of the source    *)
(* are written here in ASCII (the English reading of each message).        *)
(***************************************************************************)
EXTENDS Integers, Sequences, FiniteSets, TLC

VARIABLES pend, done, listed

vars == <<pend, done, listed>>

(* ----------------------------- bounds ---------------------------------- *)
MaxTokens == 5
MaxRows == 9

Users == {"u1", "u2"}

(* ------------------------- program constants --------------------------- *)
MinArgs == 3
DateArgs == 4
TypeArgs == 5
ListLimit == 8
HttpOk == 200

(* ------------------------------ helpers -------------------------------- *)
Space == " "

Last(s) == s[Len(s)]

Take(s, n) == SubSeq(s, 1, IF Len(s) < n THEN Len(s) ELSE n)

RECURSIVE Flatten(_)
Flatten(ss) == IF ss = <<>> THEN <<>> ELSE Head(ss) \o Flatten(Tail(ss))

(* str.split() without arguments: runs of whitespace separate the tokens,  *)
(* leading and trailing whitespace gives no empty token.                   *)
RECURSIVE SplitFrom(_, _, _)
SplitFrom(text, cur, acc) ==
    IF text = <<>>
    THEN IF cur = <<>> THEN acc ELSE Append(acc, cur)
    ELSE IF Head(text) = Space
         THEN SplitFrom(Tail(text), <<>>, IF cur = <<>> THEN acc ELSE Append(acc, cur))
         ELSE SplitFrom(Tail(text), Append(cur, Head(text)), acc)

Split(text) == SplitFrom(text, <<>>, <<>>)

(* A Python value placed in the request parameters: a str or a list of str *)
Str(token) == [t |-> "str", v |-> <<token>>]
List(tokens) == [t |-> "list", v |-> tokens]

(* what an f-string prints for such a value *)
Fmt(val) ==
    IF val.t = "str" THEN val.v[1] ELSE <<"[">> \o Flatten(val.v) \o <<"]">>

(* ------------------------------ results -------------------------------- *)
Error(body) == [kind |-> "error", body |-> body]
Message(body) == [kind |-> "message", body |-> body]

ErrArgs == Error(<< <<"X insufficient arguments! usage:">>,
                    <<"/ticket Beijing Shanghai">>,
                    <<"/ticket Chengdu Chongqing 2023-12-25 G">> >>)
ErrQueryFailed == Error(<< <<"query failed">> >>)
ErrService == Error(<< <<"ticket query service temporarily unavailable">> >>)
ErrInvalid == Error(<< <<"please enter a valid number">> >>)
ErrDetail == Error(<< <<"detail query failed">> >>)
NoMatch == Message(<< <<"no matching trains found">> >>)
Prompt == Message(<< <<"reply with a number to see the detail (enter 1-8):">> >>)

Ack(departure, arrival, train_type) ==
    Message(<< <<"searching">> \o Fmt(departure) \o <<"->">> \o Fmt(arrival)
               \o <<"for">> \o Fmt(train_type) \o <<"...">> >>)

(* outcome of a call: a value, or a raised exception *)
Return(v) == [raised |-> FALSE, exc |-> "none", val |-> v]
Raise(e) == [raised |-> TRUE, exc |-> e, val |-> <<>>]

(* --------------------------- train records ----------------------------- *)
(* A train record is a mapping owned by the API; a key may be absent.      *)
Seat(name, status, price) == [name |-> name, status |-> status, price |-> price]

TrainG == [TrainNumber |-> "G1", TrainType |-> "G", DepartTime |-> "08:00",
           DestTime |-> "12:30", TotalTime |-> "4h30m", Depart |-> "Beijing South",
           Dest |-> "Shanghai Hongqiao",
           seats |-> << Seat("second class", <<"tickets", "sufficient">>, "553"),
                        Seat("business", <<"tight">>, "1748") >>]

TrainD == [TrainNumber |-> "D7", TrainType |-> "D", DepartTime |-> "19:10",
           DestTime |-> "07:05", TotalTime |-> "11h55m", Depart |-> "Beijing",
           Dest |-> "Shanghai"]

TrainK == [TrainNumber |-> "K9", TrainType |-> "K", DepartTime |-> "10:00",
           DestTime |-> "06:00", TotalTime |-> "20h", Depart |-> "Beijing West",
           Dest |-> "Shanghai South",
           seats |-> << Seat("standing room", <<"sold out">>, "156") >>]

(* a record without its TotalTime key *)
TrainNoTime == [TrainNumber |-> "Z3", TrainType |-> "Z", DepartTime |-> "21:00",
                DestTime |-> "09:00", Depart |-> "Beijing", Dest |-> "Shanghai"]

GoodTrains == <<TrainG, TrainD, TrainK>>

RowsOf(n) == [i \in 1..n |-> GoodTrains[((i - 1) % Len(GoodTrains)) + 1]]

(* n rows, the last of them lacking a key *)
BadLast(n) == [i \in 1..n |-> IF i = n THEN TrainNoTime ELSE RowsOf(n)[i]]

(* the row counts the API answers with: none, one, a few, the display     *)
(* limit, and more than the display limit                                  *)
RowCounts == {0, 1, 3, ListLimit, MaxRows}

DataSets == {RowsOf(n) : n \in RowCounts} \cup {BadLast(1), BadLast(MaxRows)}

(* --------------------------- SEAT_EMOJI, line 11 ----------------------- *)
SEAT_EMOJI ==
    [n \in {"hard seat", "soft seat", "hard sleeper", "soft sleeper", "standing",
            "business", "first class", "second class"} |->
        CASE n = "hard seat" -> "(seat)"
          [] n = "soft seat" -> "(chair)"
          [] n = "hard sleeper" -> "(bed)"
          [] n = "soft sleeper" -> "(sleeping)"
          [] n = "standing" -> "(walking)"
          [] n = "business" -> "(gem)"
          [] n = "first class" -> "(seat)"
          [] n = "second class" -> "(chair)"]

(* dict.get(key, default) *)
Get(d, key, default) == IF key \in DOMAIN d THEN d[key] ELSE default

(* "sub" in text *)
In(sub, text) == \E i \in 1..Len(text) : text[i] = sub

DigitChar == <<"0", "1", "2", "3", "4", "5", "6", "7", "8", "9">>

(* the decimal numeral of i, 0 <= i < 100, as glyphs *)
Numeral(i) ==
    IF i < 10 THEN <<DigitChar[i + 1]>>
    ELSE <<DigitChar[(i \div 10) + 1], DigitChar[(i % 10) + 1]>>

(* int() of a one-digit text *)
IntOf(c) == CHOOSE i \in 0..9 : DigitChar[i + 1] = c

(* --------------------- _build_list_message, lines 37-46 ---------------- *)
ListKeys == {"TrainNumber", "DepartTime", "DestTime", "TotalTime"}

ListLine(idx, train) ==
    Numeral(idx) \o <<".", train["TrainNumber"], train["DepartTime"], "->",
      train["DestTime"], "(", train["TotalTime"], ")">>

ListHeader == <<"found the following trains (click a number for the detail):">>

_build_list_message(trains) ==
    LET shown == Take(trains, ListLimit) IN
    IF \E i \in 1..Len(shown) : ~(ListKeys \subseteq DOMAIN shown[i])
    THEN Raise("KeyError")
    ELSE Return(<<ListHeader>> \o [i \in 1..Len(shown) |-> ListLine(i, shown[i])])

(* -------------------- _build_detail_message, lines 48-63 --------------- *)
DetailKeys == {"TrainNumber", "TrainType", "DepartTime", "DestTime", "TotalTime",
               "Depart", "Dest"}
SeatKeys == {"name", "status", "price"}

SeatLine(seat) ==
    LET emoji == Get(SEAT_EMOJI, seat["name"], "(ticket)")
        status == IF In("sufficient", seat["status"]) THEN "(ok)"
                  ELSE IF In("tight", seat["status"]) THEN "(warn)"
                  ELSE "(none)"
    IN <<emoji, seat["name"], ":", status, "Y", seat["price"]>>

_build_detail_message(train) ==
    LET seats == Get(train, "seats", <<>>) IN
    IF ~(DetailKeys \subseteq DOMAIN train) THEN Raise("KeyError")
    ELSE IF \E i \in 1..Len(seats) : ~(SeatKeys \subseteq DOMAIN seats[i])
    THEN Raise("KeyError")
    ELSE Return(<< <<"train:", train["TrainNumber"], "(", train["TrainType"], ")">>,
                   <<"time:", train["DepartTime"], "->", train["DestTime"]>>,
                   <<"duration:", train["TotalTime"]>>,
                   <<"stations:", train["Depart"], "->", train["Dest"]>>,
                   <<>>,
                   <<"ticket info:">> >>
                \o [i \in 1..Len(seats) |-> SeatLine(seats[i])])

(* ------------------------ fetch_tickets, lines 24-35 ------------------- *)
Absent == "<absent>"

(* a parsed JSON body; "falsy" is null, 0, "", [] or {}; "array" a     *)
(* non-empty value that is not an object; "invalid" a body json() rejects  *)
Body(type, code, hasData, data) ==
    [type |-> type, code |-> code, hasData |-> hasData, data |-> data]

None == Body("none", Absent, FALSE, <<>>)

Codes == {"200", "500", "int 200", Absent}

Bodies ==
    {Body("object", "200", TRUE, d) : d \in DataSets}
    \cup {Body("object", "200", FALSE, <<>>)}
    \cup {Body("object", c, TRUE, RowsOf(1)) : c \in Codes \ {"200"}}
    \cup {Body("falsy", Absent, FALSE, <<>>), Body("array", Absent, FALSE, <<>>),
          Body("invalid", Absent, FALSE, <<>>)}

NoHttp == [kind |-> "none", status |-> 0, body |-> None]

(* what the GET comes back with: a transport exception (timeout included), *)
(* or a status and a body                                                  *)
HttpOutcomes ==
    {[kind |-> "exception", status |-> 0, body |-> None],
     [kind |-> "response", status |-> 500, body |-> Body("object", "200", TRUE, RowsOf(1))]}
    \cup {[kind |-> "response", status |-> HttpOk, body |-> b] : b \in Bodies}

fetch_tickets(http) ==
    IF http.kind = "exception" THEN None
    ELSE IF http.status # HttpOk THEN None
    ELSE IF http.body.type = "invalid" THEN None
    ELSE http.body

(* ------------------------------- state --------------------------------- *)
(* pend[u]   the ticket_query of user u suspended at line 95, if any       *)
(*           (one suspended query per user is kept; the handlers share no  *)
(*           state, so a second one of the same user would add nothing)    *)
(* done      the handler invocation that completed last, with its input,   *)
(*           the results it yielded and the exception it met               *)
(* listed    the list sent last (lines 106-110): its user and its rows     *)
NoParams == [departure |-> List(<<>>), arrival |-> List(<<>>), date |-> List(<<>>),
             form |-> List(<<>>), type |-> List(<<>>)]

Idle == [pc |-> "idle", args |-> <<>>, params |-> NoParams, out |-> <<>>, gets |-> 0]

NoList == [to |-> "-", rows |-> <<>>]

Done(h, user, args, text, params, http, out, gets, exc, escaped) ==
    [h |-> h, user |-> user, args |-> args, text |-> text, params |-> params,
     http |-> http, out |-> out, gets |-> gets, exc |-> exc, escaped |-> escaped]

Init ==
    /\ pend = [u \in Users |-> Idle]
    /\ done = Done("init", "-", <<>>, <<>>, NoParams, NoHttp, <<>>, 0, "none", FALSE)
    /\ listed = NoList

(* ------------------------------- inputs -------------------------------- *)
Words == << <<"ticket">>, <<"Bei", "jing">>, <<"Shang", "hai">>, <<"2023-12-25">>, <<"G">> >>

Word(i) == IF i <= Len(Words) THEN Words[i] ELSE <<"more">>

RECURSIVE Join(_, _, _)
Join(n, i, sep) ==
    IF i > n THEN <<>>
    ELSE Word(i) \o (IF i < n THEN sep ELSE <<>>) \o Join(n, i + 1, sep)

(* the command followed by n-1 words: single spaces, or padded *)
CommandTexts ==
    {Join(n, 1, <<Space>>) : n \in 1..MaxTokens}
    \cup {<<Space>> \o Join(n, 1, <<Space, Space>>) \o <<Space>> : n \in 1..MaxTokens}

(* other messages: one digit, or two *)
OtherTexts == {<<DigitChar[i]>> : i \in 1..Len(DigitChar)} \cup {<<"1", "2">>}

(* the regex of line 116: ^[1-8]$ *)
RegexMatch(text) == Len(text) = 1 /\ text[1] \in {DigitChar[i + 1] : i \in 1..8}

Today == <<"today %Y-%m-%d">>
DefaultType == <<"G-train">>

(* ----------------------- ticket_query, lines 65-114 -------------------- *)
(* line 70, with the bound one too small *)
TooFewArgs_offByOne(args) == Len(args) < MinArgs - 1

(* line 70 *)
TooFewArgs(args) == Len(args) < MinArgs

(* lines 79-93: the subscripts of args are absent in the source, so each   *)
(* of the four names is bound to the whole list of tokens                  *)
ParseParams(args) ==
    [departure |-> List(args),
     arrival |-> List(args),
     date |-> IF Len(args) >= DateArgs THEN List(args) ELSE Str(Today),
     form |-> IF Len(args) >= TypeArgs THEN List(args) ELSE Str(DefaultType),
     type |-> Str(<<"json">>)]

(* line 96 *)
Falsy(result) == result.type \in {"none", "falsy"}

(* line 96 without the test of the code field *)
QueryFailed_noCode(result) == Falsy(result)

QueryFailed(result) == Falsy(result) \/ result.code # "200"

(* an except clause that names the exception types and forgets KeyError *)
Caught_noKeyError(exc) == exc \in {"AttributeError", "TypeError", "ValueError"}

(* lines 112 and 129: except Exception *)
Caught(exc) == exc \in {"KeyError", "AttributeError", "TypeError", "ValueError"}

(* lines 96-110: what the handler yields once fetch_tickets has returned,  *)
(* and the exception it raises, if any                                     *)
AfterFetch(result) ==
    IF Falsy(result) THEN [out |-> <<ErrQueryFailed>>, exc |-> "none", rows |-> <<>>]
    ELSE IF result.type # "object" THEN [out |-> <<>>, exc |-> "AttributeError", rows |-> <<>>]
    ELSE IF QueryFailed(result) THEN [out |-> <<ErrQueryFailed>>, exc |-> "none", rows |-> <<>>]
    ELSE LET trains == IF result.hasData THEN result.data ELSE <<>>
             list_msg == _build_list_message(trains)
         IN IF trains = <<>> THEN [out |-> <<NoMatch>>, exc |-> "none", rows |-> <<>>]
            ELSE IF list_msg.raised THEN [out |-> <<>>, exc |-> list_msg.exc, rows |-> <<>>]
            ELSE [out |-> <<Message(list_msg.val), Prompt>>, exc |-> "none", rows |-> trains]

(* the except clause of a handler: a caught exception yields the handler's *)
(* generic error, any other leaves the handler                             *)
Handled(out, exc, generic) ==
    IF exc = "none" THEN [out |-> out, escaped |-> FALSE]
    ELSE IF Caught(exc) THEN [out |-> Append(out, generic), escaped |-> FALSE]
    ELSE [out |-> out, escaped |-> TRUE]

(* lines 69-95: up to the await *)
ticket_query(u, text) ==
    LET args == Split(text)
        params == ParseParams(args)
    IN IF TooFewArgs(args)
       THEN /\ done' = Done("ticket_query", u, args, text, NoParams, NoHttp,
                            <<ErrArgs>>, 0, "none", FALSE)
            /\ UNCHANGED <<pend, listed>>
       ELSE /\ pend[u].pc = "idle"
            /\ pend' = [pend EXCEPT ![u] =
                   [pc |-> "await", args |-> args, params |-> params,
                    out |-> <<Ack(params.departure, params.arrival, params.form)>>,
                    gets |-> 1]]
            /\ UNCHANGED <<done, listed>>

(* lines 95-114: fetch_tickets returns and the handler runs to its end *)
ticket_query_resume(u, http) ==
    /\ pend[u].pc = "await"
    /\ LET p == pend[u]
           r == AfterFetch(fetch_tickets(http))
           e == Handled(p.out \o r.out, r.exc, ErrService)
       IN /\ done' = Done("ticket_query", u, p.args, <<>>, p.params, http,
                          e.out, p.gets, r.exc, e.escaped)
          /\ listed' = IF r.rows # <<>> THEN [to |-> u, rows |-> r.rows] ELSE listed
    /\ pend' = [pend EXCEPT ![u] = Idle]

(* ---------------------- handle_choice, lines 116-131 ------------------- *)
(* line 121: the class body (lines 18-131) defines no _get_cached_data and *)
(* __init__ (lines 19-22) assigns none, so the attribute lookup raises     *)
_get_cached_data(user_id) == Raise("AttributeError")

ChoiceBody(user_id, choice) ==
    LET cached == _get_cached_data(user_id) IN
    IF cached.raised THEN [out |-> <<>>, exc |-> cached.exc]
    ELSE IF 1 <= choice /\ choice <= Len(cached.val)
    THEN LET detail == _build_detail_message(cached.val[choice]) IN
         IF detail.raised THEN [out |-> <<>>, exc |-> detail.exc]
         ELSE [out |-> <<Message(detail.val)>>, exc |-> "none"]
    ELSE [out |-> <<ErrInvalid>>, exc |-> "none"]

handle_choice(u, text) ==
    /\ RegexMatch(text)
    /\ LET r == ChoiceBody(u, IntOf(text[1]))
           e == Handled(r.out, r.exc, ErrDetail)
       IN done' = Done("handle_choice", u, <<>>, text, NoParams, NoHttp,
                       e.out, 0, r.exc, e.escaped)
    /\ UNCHANGED <<pend, listed>>

(* a message that is neither the command nor a match of the regex reaches  *)
(* no handler                                                              *)
unmatched_message(u, text) ==
    /\ ~RegexMatch(text)
    /\ done' = Done("none", u, <<>>, text, NoParams, NoHttp, <<>>, 0, "none", FALSE)
    /\ UNCHANGED <<pend, listed>>

Next ==
    \/ \E u \in Users, text \in CommandTexts : ticket_query(u, text)
    \/ \E u \in Users, http \in HttpOutcomes : ticket_query_resume(u, http)
    \/ \E u \in Users, text \in OtherTexts : handle_choice(u, text)
    \/ \E u \in Users, text \in OtherTexts : unmatched_message(u, text)

Spec == Init /\ [][Next]_vars

(* ============================== claims ================================= *)

(* C1: a command text that splits into fewer than 3 tokens yields exactly  *)
(* one result, the insufficient-arguments error, issues no GET, suspends   *)
(* no fetch and stores nothing.                                            *)
C1_ShortCommandRejected ==
    [][(/\ done' # done
        /\ done'.h = "ticket_query"
        /\ Len(done'.args) < 3)
       => (/\ done'.out = <<ErrArgs>>
           /\ done'.gets = 0
           /\ done'.http = NoHttp
           /\ pend' = pend
           /\ listed' = listed)]_vars

C1_Witness ==
    /\ done.h = "ticket_query"
    /\ Len(done.args) = 2
    /\ done.text # Join(2, 1, <<Space>>)
    /\ done.out = <<ErrArgs>>
    /\ \E u \in Users : pend[u].pc = "await"

(* C6: no exception leaves a handler, and on every failure path (too few   *)
(* arguments, failed request, failure code, exception inside the handler)  *)
(* the results end with an error and hold exactly one error.               *)
C6_NoExceptionEscapes ==
    LET http == done.http
        failed ==
            \/ done.exc # "none"
            \/ /\ done.h = "ticket_query"
               /\ \/ Len(done.args) < 3
                  \/ http.kind = "exception"
                  \/ http.kind = "response" /\ http.status # 200
                  \/ http.kind = "response" /\ http.body.type \in {"invalid", "falsy", "array"}
                  \/ http.kind = "response" /\ http.body.code # "200"
        errors == {i \in 1..Len(done.out) : done.out[i].kind = "error"}
    IN /\ ~done.escaped
       /\ failed => /\ done.out # <<>>
                    /\ Last(done.out).kind = "error"
                    /\ Cardinality(errors) = 1

C6_Witness ==
    /\ done.h = "ticket_query"
    /\ done.exc = "KeyError"
    /\ done.http.body.data = BadLast(1)
    /\ Last(done.out) = ErrService

(* C8: an invocation of ticket_query issues at most one GET; when the      *)
(* request fails or the body's code is not "200" the handler yields the    *)
(* acknowledgment and then the query-failed error, nothing else.           *)
C8_OneGetNoRetry ==
    LET http == done.http
        failed ==
            \/ http.kind = "exception"
            \/ http.kind = "response" /\ http.status # 200
            \/ http.kind = "response" /\ http.body.type \in {"invalid", "falsy"}
            \/ http.kind = "response" /\ http.body.type = "object" /\ http.body.code # "200"
    IN /\ \A u \in Users : pend[u].gets <= 1
       /\ done.gets <= 1
       /\ (done.h = "ticket_query" /\ failed)
            => /\ Len(done.out) = 2
               /\ done.out[1].kind = "message"
               /\ done.out[1].body[1][1] = "searching"
               /\ done.out[2] = ErrQueryFailed
               /\ done.gets = 1

C8_Witness ==
    /\ done.h = "ticket_query"
    /\ done.http.kind = "response"
    /\ done.http.status = 200
    /\ done.http.body.code = "500"
    /\ done.http.body.data # <<>>
    /\ done.out[2] = ErrQueryFailed

(* C2: after a successful query (code "200") by user u that returns N >= 1 *)
(* rows, the cache entry of u is that row list in the same order, and the  *)
(* list message has min(N,8) entries numbered 1..min(N,8), followed by the *)
(* prompt.  (Stated for rows that carry the keys the list prints.)         *)
C2_CacheHoldsRows ==
    LET http == done.http
        rows == http.body.data
        n == IF Len(rows) < 8 THEN Len(rows) ELSE 8
        entry == _get_cached_data(done.user)
    IN (/\ done.h = "ticket_query"
        /\ http.kind = "response"
        /\ http.status = 200
        /\ http.body.type = "object"
        /\ http.body.code = "200"
        /\ http.body.hasData
        /\ Len(rows) >= 1
        /\ \A i \in 1..n : ListKeys \subseteq DOMAIN rows[i])
       => /\ ~entry.raised
          /\ entry.val = rows
          /\ Len(done.out) = 3
          /\ done.out[3] = Prompt
          /\ Len(done.out[2].body) = 1 + n
          /\ \A i \in 1..n :
                /\ SubSeq(done.out[2].body[i + 1], 1, 2) = Numeral(i) \o <<".">>
                /\ done.out[2].body[i + 1][3] = rows[i]["TrainNumber"]

(* C3: a selection reply from a user to whom no list was ever sent (no     *)
(* earlier successful query) yields one error, the session-expired error,  *)
(* which is neither the invalid-number error nor a generic failure error.  *)
C3_SessionExpired ==
    (done.h = "handle_choice" /\ listed = NoList)
    => /\ Len(done.out) = 1
       /\ done.out[1].kind = "error"
       /\ done.out[1] \notin {ErrInvalid, ErrDetail, ErrService, ErrQueryFailed}

(* C4: a digit d in 1..8 beyond the length L of the list held for the user *)
(* yields the invalid-number error, with no exception inside the handler.  *)
C4_InvalidNumber ==
    (/\ done.h = "handle_choice"
     /\ listed.to = done.user
     /\ IntOf(done.text[1]) > Len(listed.rows))
    => /\ done.out = <<ErrInvalid>>
       /\ done.exc = "none"

(* C5: after a successful query by u with N >= 1 rows, a reply i by u with *)
(* 1 <= i <= min(N,8) yields the detail of row i: train number and type,   *)
(* both times, duration, both stations, one line per seat class.           *)
C5_RoundTrip ==
    LET i == IntOf(done.text[1])
        row == listed.rows[i]
        seats == IF "seats" \in DOMAIN row THEN row["seats"] ELSE <<>>
        body == done.out[1].body
    IN (/\ done.h = "handle_choice"
        /\ listed.to = done.user
        /\ i <= Len(listed.rows)
        /\ i <= 8)
       => /\ Len(done.out) = 1
          /\ done.out[1].kind = "message"
          /\ Len(body) = 6 + Len(seats)
          /\ In(row["TrainNumber"], body[1]) /\ In(row["TrainType"], body[1])
          /\ In(row["DepartTime"], body[2]) /\ In(row["DestTime"], body[2])
          /\ In(row["TotalTime"], body[3])
          /\ In(row["Depart"], body[4]) /\ In(row["Dest"], body[4])
          /\ \A k \in 1..Len(seats) :
                In(seats[k]["name"], body[6 + k]) /\ In(seats[k]["price"], body[6 + k])

(* C7: the scenario, for one user: the command with two words after it     *)
(* gives the insufficient-arguments error; the command with four words     *)
(* and 3 rows from the API gives a list of 3 numbered entries and then the *)
(* prompt; a following reply "2" gives the detail of row 2; a following    *)
(* reply "9" gives the invalid-number error.                               *)
C7_Scenario ==
    LET n == Len(done.out) IN
    /\ (done.h = "ticket_query" /\ done.args = SubSeq(Words, 1, 3))
       => done.out = <<ErrArgs>>
    /\ (/\ done.h = "ticket_query"
        /\ done.args = SubSeq(Words, 1, 5)
        /\ done.http.kind = "response" /\ done.http.status = 200
        /\ done.http.body = Body("object", "200", TRUE, RowsOf(3)))
       => /\ n >= 2
          /\ done.out[n] = Prompt
          /\ Len(done.out[n - 1].body) = 4
          /\ \A i \in 1..3 : done.out[n - 1].body[i + 1][1] = DigitChar[i + 1]
    /\ (/\ done.text = <<"2">>
        /\ listed = [to |-> done.user, rows |-> RowsOf(3)])
       => /\ Len(done.out) = 1
          /\ done.out[1].kind = "message"
          /\ In(RowsOf(3)[2]["TrainNumber"], done.out[1].body[1])
    /\ (/\ done.text = <<"9">>
        /\ listed = [to |-> done.user, rows |-> RowsOf(3)])
       => done.out = <<ErrInvalid>>

(* C9: the parameters of the GET are taken token by token: departure the   *)
(* 2nd token, arrival the 3rd, date the 4th when present and the default   *)
(* otherwise, form the 5th when present and the default class otherwise,   *)
(* type the constant "json".                                               *)
C9_ParamsByToken ==
    \A u \in Users :
        pend[u].pc = "await" =>
            LET a == pend[u].args
                p == pend[u].params
            IN /\ p.departure = Str(a[2])
               /\ p.arrival = Str(a[3])
               /\ p.date = IF Len(a) >= 4 THEN Str(a[4]) ELSE Str(Today)
               /\ p.form = IF Len(a) >= 5 THEN Str(a[5]) ELSE Str(DefaultType)
               /\ p.type = Str(<<"json">>)

(* C10: the cache entry of user u changes only in a step that completes a  *)
(* query by u with code "200" and at least one row, and such a step sets   *)
(* it to the rows of that query (last write wins); every other step leaves *)
(* it alone, and an entry is never removed.                                *)
C10_CacheFrame ==
    [][\A u \in Users :
        LET before == _get_cached_data(u)
            after == _get_cached_data(u)'
            http == done'.http
            wins == /\ pend[u].pc = "await"
                    /\ pend'[u].pc = "idle"
                    /\ http.kind = "response"
                    /\ http.status = 200
                    /\ http.body.type = "object"
                    /\ http.body.code = "200"
                    /\ http.body.hasData
                    /\ http.body.data # <<>>
                    /\ \A i \in 1..Len(Take(http.body.data, 8)) :
                          ListKeys \subseteq DOMAIN http.body.data[i]
        IN /\ after # before => wins
           /\ wins => (~after.raised /\ after.val = http.body.data)
           /\ ~before.raised => ~after.raised]_vars

TypeOK ==
    /\ \A u \in Users : pend[u].pc \in {"idle", "await"}
    /\ done.h \in {"init", "none", "ticket_query", "handle_choice"}
====
